---- MODULE Spec2Model ----
(***************************************************************************)
(* Draft/official versioning of courses and course runs, the course-run    *)
(* status state machine and the course URL-slug registry of                *)
(* course_discovery/apps/course_metadata/models.py.                        *)
(*                                                                         *)
(* The relational store is modelled as three tables (sets of rows, every   *)
(* row carrying its primary key) and the request cache "active_url_cache" *)
(* of the request being served.  Every action is one call made by a        *)
(* request handler or management command on a freshly loaded instance; a   *)
(* call that raises rolls back what its open transaction has written.      *)
(***************************************************************************)
EXTENDS Integers, FiniteSets, Sequences, TLC

VARIABLES courses, course_runs, url_slugs, cache, invalidated, now, lastCall, workers,
          bulk_tasks, bulk_call

\* the BulkOperationTask table and the Celery worker running process_bulk_operation
bulk == <<bulk_tasks, bulk_call>>

vars == <<courses, course_runs, url_slugs, cache, invalidated, now, lastCall, workers,
          bulk_tasks, bulk_call>>

---------------------------------------------------------------------------
(* Bounds of the model *)

\* the clock runs over 1..MaxNow
MaxNow == 2

---------------------------------------------------------------------------
(* Values *)

\* the request-handling workers that run calls step by step
Workers == {"w1", "w2"}

\* a NULL DateTimeField
NoDate == 0
\* a NULL foreign key / OneToOneField
NoPk == <<>>
\* None, or the empty string, as a slug
NoSlug == ""
\* no exception raised
NoError == ""

Unpublished == "Unpublished"
InternalReview == "InternalReview"
LegalReview == "LegalReview"
Reviewed == "Reviewed"
Published == "Published"

CourseRunStatus == {Unpublished, InternalReview, LegalReview, Reviewed, Published}

\* Seat.ENTITLEMENT_MODES, restricted to the seat types of the model
ENTITLEMENT_MODES == {"verified", "professional"}

\* Seat.REQUIRES_AUDIT_SEAT
REQUIRES_AUDIT_SEAT == {"verified"}

\* partners; Partner.has_marketing_site
Partners == {"edx", "other"}

has_marketing_site(partner) == partner = "edx"

\* <<partner, key, mode of the draft entitlement>> of the courses editors
\* create: two courses of two partners, and the first of them alone
CourseInputs == {<<"edx", "edX+C1", "verified">>, <<"other", "edX+C2", "audit">>}

OneCourseInput == {<<"edx", "edX+C1", "verified">>}

\* two courses of one partner
SamePartnerCourseInputs == {<<"edx", "edX+C1", "verified">>, <<"edx", "edX+C3", "audit">>}

\* CourseKey.from_string(key).deprecated
KeyDeprecated(key) == key = "edX/C/r3"

\* CourseRunType rows: slug -> is_marketable, seat types of its tracks
CourseRunTypes == {"verified-audit", "masters"}

TypeIsMarketable(type) == type = "verified-audit"

TypeSeatTypes(type) == IF type = "verified-audit" THEN {"verified", "audit"} ELSE {"masters"}

\* CourseRun.slug (AutoSlugField over title and key): one text per run key; the
\* first collides with a slug text editors give to courses
RunSlug(key) ==
    IF key = "course-v1:edX+C+r1" THEN "a"
    ELSE IF key = "course-v1:edX+C+r2" THEN "run-r2" ELSE "run-r3"

\* slug texts an editor passes to set_active_url_slug
SlugInputs == {"a", "b"}

\* the text get_slug_for_course generates (subdirectory format)
SubdirectorySlugs == {"learn/x"}

\* re.match(SUBDIRECTORY_SLUG_FORMAT_REGEX, slug)
IsSubdirectoryFormat(slug) == slug \in SubdirectorySlugs

\* str.lower() of a slug text
Lower(slug) == IF slug = "A" THEN "a" ELSE IF slug = "B" THEN "b" ELSE slug

\* what a draft run is created with:
\* <<key, end, enrollment_end, go_live_date, type, restriction_type>>
RunInputs ==
    {<<"course-v1:edX+C+r1", NoDate, NoDate, NoDate, "verified-audit", "">>,
     <<"course-v1:edX+C+r1", NoDate, NoDate, 1, "verified-audit", "custom-b2c">>}

\* one run without dates, for the slug registry
SlugRunInputs == {<<"course-v1:edX+C+r1", NoDate, NoDate, NoDate, "verified-audit", "">>}

\* a first run that ends, by its end or by its enrollment end, and a second
\* run that does not; all but the last are due to go live from the start
SweepRunInputs ==
    {<<"course-v1:edX+C+r1", 1, NoDate, 1, "verified-audit", "">>,
     <<"course-v1:edX+C+r1", 2, NoDate, 1, "verified-audit", "">>,
     <<"course-v1:edX+C+r1", 2, 1, 1, "verified-audit", "">>,
     <<"course-v1:edX+C+r2", NoDate, NoDate, 1, "verified-audit", "">>,
     <<"course-v1:edX+C+r2", NoDate, NoDate, NoDate, "masters", "">>}

\* two runs of one course, without dates
TwoRunInputs ==
    {<<"course-v1:edX+C+r1", NoDate, NoDate, NoDate, "verified-audit", "">>,
     <<"course-v1:edX+C+r2", NoDate, NoDate, NoDate, "masters", "">>}

---------------------------------------------------------------------------
(* Rows and lookups *)

Row(rows, pk) == CHOOSE r \in rows : r.pk = pk

HasRow(rows, pk) == \E r \in rows : r.pk = pk

UpdateRow(rows, new) == {r \in rows : r.pk # new.pk} \cup {new}

\* AutoField of the course and course-run tables: a fresh primary key.  The
\* key is the n-th row created with this natural key and draft flag, so that
\* the order in which unrelated rows are created does not show in the keys.
NextPk(rows, key, draft) ==
    <<key, draft, Cardinality({r \in rows : r.key = key /\ r.draft = draft}) + 1>>

\* AutoField of the slug table; rows are deleted there, and since no other
\* row refers to a slug row the smallest unused key stands for the next key
NextSlugPk(slugs) == CHOOSE n \in 1..(Cardinality(slugs) + 1) : \A s \in slugs : s.pk # n

\* a draft that never finds its official row
NeverOfficial(rows, pk) == NoPk

\* DraftModelMixin.official_version, as a primary key (NoPk for None)
official_version(rows, pk) ==
    IF \E o \in rows : o.draft_version = pk
    THEN (CHOOSE o \in rows : o.draft_version = pk).pk
    ELSE NoPk

\* QuerySet.first(): the row with the least primary key
First(rows) == CHOOSE r \in rows : \A t \in rows : r.pk <= t.pk

\* an exception that is not rolled back
NotRolledBack(before, after) == after

\* the three tables and the request cache, as the operations see them
DB(cs, rs, ss, ch) == [courses |-> cs, runs |-> rs, slugs |-> ss, cache |-> ch]

\* transaction.atomic on an exception: the rows are those of before, the
\* request cache is not part of the transaction
RolledBack(before, after) == [before EXCEPT !.cache = after.cache]

---------------------------------------------------------------------------
(* Slug registry: Course.active_url_slug, Course.set_active_url_slug *)

\* AutoSlugWithSlashesField on CourseUrlSlug.url_slug: the text generated
\* from the course title when a row is created with url_slug None
AutoSlug(course) == "title-" \o course.key

\* Meta.unique_together of CourseUrlSlug: (partner, url_slug)
SlugUniqueTogether(slugs, row) ==
    \A s \in slugs : s.pk # row.pk => ~(s.partner = row.partner /\ s.url_slug = row.url_slug)

\* edx_django_utils get_cache_key(course_uuid=..., draft=...)
get_cache_key(course_uuid, draft) == <<course_uuid, draft>>

\* clearing the cached slug of the official course only
ClearOfficialKeyOnly(ch, course_uuid) ==
    {e \in ch : e.key # get_cache_key(course_uuid, FALSE)}

\* utils.clear_slug_request_cache_for_course: the cached slugs of the draft
\* and of the official course of this uuid are dropped
clear_slug_request_cache_for_course(ch, course_uuid) ==
    {e \in ch : e.key \notin {get_cache_key(course_uuid, TRUE), get_cache_key(course_uuid, FALSE)}}

\* the lookup without the fall-back of a draft on its official course
ActiveUrlOwnOnly(db, cpk) ==
    LET own == {s \in db.slugs : s.course = cpk /\ s.is_active}
    IN  IF own # {} THEN First(own).url_slug ELSE NoSlug

\* the rows Course.active_url_slug looks the slug up in: the course's own
\* active row, else for a draft the row of its official course flagged
\* is_active_on_draft; NoSlug for None
ActiveUrl(db, cpk) ==
    LET c == Row(db.courses, cpk)
        own == {s \in db.slugs : s.course = cpk /\ s.is_active}
        off == official_version(db.courses, cpk)
        inherited == {s \in db.slugs : s.course = off /\ s.is_active_on_draft}
    IN  IF own # {} THEN First(own).url_slug
        ELSE IF c.draft /\ off # NoPk /\ inherited # {} THEN First(inherited).url_slug
        ELSE NoSlug

\* Course.active_url_slug: [value, db]; the cached value if there is one,
\* else the value looked up, which is cached unless it is empty
active_url_slug(db, cpk) ==
    LET c == Row(db.courses, cpk)
        cache_key == get_cache_key(c.uuid, c.draft)
        cached == {e \in db.cache : e.key = cache_key}
        url_slug == ActiveUrl(db, cpk)
    IN  IF cached # {} THEN [value |-> (CHOOSE e \in cached : TRUE).value, db |-> db]
        ELSE IF url_slug # NoSlug
        THEN [value |-> url_slug,
              db |-> [db EXCEPT !.cache = db.cache \cup {[key |-> cache_key, value |-> url_slug]}]]
        ELSE [value |-> NoSlug, db |-> db]

\* case 0 looking at the rows of the course's own partner only
InUseWithinPartner(db, cpk, slug) ==
    LET c == Row(db.courses, cpk)
        excluded_course == IF c.draft THEN official_version(db.courses, cpk) ELSE c.draft_version
    IN  \E s \in db.slugs :
            /\ Lower(s.url_slug) = Lower(slug)
            /\ s.partner = c.partner
            /\ s.course \notin {cpk, excluded_course}

\* case 0 left out
NeverInUse(db, cpk, slug) == FALSE

\* case 0 of set_active_url_slug: the slug is a row of a course other than
\* this one and its draft/official counterpart
slug_already_in_use(db, cpk, slug) ==
    LET c == Row(db.courses, cpk)
        excluded_course == IF c.draft THEN official_version(db.courses, cpk) ELSE c.draft_version
    IN  \E s \in db.slugs :
            /\ Lower(s.url_slug) = Lower(slug)
            /\ s.course \notin {cpk, excluded_course}

\* the draft branch keeping the draft's own active row when the slug is found
\* in the official course's history
SetActiveUrlSlugDraftKeepingOwn(db, cpk, slug) ==
    LET c == Row(db.courses, cpk)
        off == official_version(db.courses, cpk)
        active_draft == {s \in db.slugs : s.course = cpk /\ s.is_active}
        touched == {s \in db.slugs :
                      s.course = off /\ (s.is_active_on_draft \/ s.url_slug = slug)}
        found == off # NoPk /\ \E s \in touched : s.url_slug = slug
        marked == {IF s \in touched
                   THEN [s EXCEPT !.is_active_on_draft = (s.url_slug = slug)]
                   ELSE s : s \in db.slugs}
        slugs1 == IF off # NoPk THEN marked ELSE db.slugs
        obj == IF active_draft # {}
               THEN [First(active_draft) EXCEPT !.url_slug = slug, !.partner = c.partner]
               ELSE [pk |-> NextSlugPk(slugs1), course |-> cpk, partner |-> c.partner,
                     url_slug |-> slug, is_active |-> TRUE, is_active_on_draft |-> FALSE]
    IN  IF found
        THEN [err |-> NoError, db |-> [db EXCEPT !.slugs = slugs1]]
        ELSE IF ~SlugUniqueTogether(slugs1, obj)
        THEN [err |-> "IntegrityError", db |-> db]
        ELSE [err |-> NoError, db |-> [db EXCEPT !.slugs = UpdateRow(slugs1, obj)]]

\* the draft branch of set_active_url_slug
SetActiveUrlSlugDraft(db, cpk, slug) ==
    LET c == Row(db.courses, cpk)
        off == official_version(db.courses, cpk)
        active_draft == {s \in db.slugs : s.course = cpk /\ s.is_active}
        touched == {s \in db.slugs :
                      s.course = off /\ (s.is_active_on_draft \/ s.url_slug = slug)}
        found == off # NoPk /\ \E s \in touched : s.url_slug = slug
        marked == {IF s \in touched
                   THEN [s EXCEPT !.is_active_on_draft = (s.url_slug = slug)]
                   ELSE s : s \in db.slugs}
        slugs1 == IF off # NoPk THEN marked ELSE db.slugs
        \* update_or_create(is_active=True, defaults=...)
        obj == IF active_draft # {}
               THEN [First(active_draft) EXCEPT !.url_slug = slug, !.partner = c.partner]
               ELSE [pk |-> NextSlugPk(slugs1), course |-> cpk, partner |-> c.partner,
                     url_slug |-> slug, is_active |-> TRUE, is_active_on_draft |-> FALSE]
    IN  IF found
        THEN [err |-> NoError,
              db |-> [db EXCEPT !.slugs = IF active_draft # {}
                                          THEN slugs1 \ {First(active_draft)}
                                          ELSE slugs1]]
        ELSE IF ~SlugUniqueTogether(slugs1, obj)
        THEN [err |-> "IntegrityError", db |-> db]
        ELSE [err |-> NoError, db |-> [db EXCEPT !.slugs = UpdateRow(slugs1, obj)]]

\* the official branch without its closing loop over the other slugs
SetActiveUrlSlugOfficialKeepingOthers(db, cpk, slug) ==
    LET c == Row(db.courses, cpk)
        slugs1 == IF c.draft_version # NoPk
                  THEN {s \in db.slugs : ~(s.course = c.draft_version /\ s.is_active)}
                  ELSE db.slugs
        existing == {s \in slugs1 : s.course = cpk /\ slug # NoSlug /\ s.url_slug = slug}
        obj == IF existing # {}
               THEN [First(existing) EXCEPT !.is_active = TRUE, !.is_active_on_draft = TRUE,
                                            !.partner = c.partner]
               ELSE [pk |-> NextSlugPk(slugs1), course |-> cpk, partner |-> c.partner,
                     url_slug |-> IF slug = NoSlug THEN AutoSlug(c) ELSE slug,
                     is_active |-> TRUE, is_active_on_draft |-> TRUE]
    IN  IF ~SlugUniqueTogether(slugs1, obj)
        THEN [err |-> "IntegrityError", db |-> db]
        ELSE [err |-> NoError, db |-> [db EXCEPT !.slugs = UpdateRow(slugs1, obj)]]

\* the official branch deleting the other flagged slugs instead of clearing them
SetActiveUrlSlugOfficialDroppingOthers(db, cpk, slug) ==
    LET c == Row(db.courses, cpk)
        slugs1 == IF c.draft_version # NoPk
                  THEN {s \in db.slugs : ~(s.course = c.draft_version /\ s.is_active)}
                  ELSE db.slugs
        existing == {s \in slugs1 : s.course = cpk /\ slug # NoSlug /\ s.url_slug = slug}
        obj == IF existing # {}
               THEN [First(existing) EXCEPT !.is_active = TRUE, !.is_active_on_draft = TRUE,
                                            !.partner = c.partner]
               ELSE [pk |-> NextSlugPk(slugs1), course |-> cpk, partner |-> c.partner,
                     url_slug |-> IF slug = NoSlug THEN AutoSlug(c) ELSE slug,
                     is_active |-> TRUE, is_active_on_draft |-> TRUE]
        kept == {s \in UpdateRow(slugs1, obj) :
                    ~(s.course = cpk /\ (s.is_active \/ s.is_active_on_draft)
                      /\ s.url_slug # obj.url_slug)}
    IN  IF ~SlugUniqueTogether(slugs1, obj)
        THEN [err |-> "IntegrityError", db |-> db]
        ELSE [err |-> NoError, db |-> [db EXCEPT !.slugs = kept]]

\* the official branch of set_active_url_slug
SetActiveUrlSlugOfficial(db, cpk, slug) ==
    LET c == Row(db.courses, cpk)
        slugs1 == IF c.draft_version # NoPk
                  THEN {s \in db.slugs : ~(s.course = c.draft_version /\ s.is_active)}
                  ELSE db.slugs
        existing == {s \in slugs1 : s.course = cpk /\ slug # NoSlug /\ s.url_slug = slug}
        \* update_or_create(url_slug=slug, defaults=...)
        obj == IF existing # {}
               THEN [First(existing) EXCEPT !.is_active = TRUE, !.is_active_on_draft = TRUE,
                                            !.partner = c.partner]
               ELSE [pk |-> NextSlugPk(slugs1), course |-> cpk, partner |-> c.partner,
                     url_slug |-> IF slug = NoSlug THEN AutoSlug(c) ELSE slug,
                     is_active |-> TRUE, is_active_on_draft |-> TRUE]
        slugs2 == UpdateRow(slugs1, obj)
        cleared == {IF s.course = cpk /\ (s.is_active \/ s.is_active_on_draft)
                       /\ s.url_slug # obj.url_slug
                    THEN [s EXCEPT !.is_active = FALSE, !.is_active_on_draft = FALSE]
                    ELSE s : s \in slugs2}
    IN  IF ~SlugUniqueTogether(slugs1, obj)
        THEN [err |-> "IntegrityError", db |-> db]
        ELSE [err |-> NoError, db |-> [db EXCEPT !.slugs = cleared]]

\* set_active_url_slug after case 0: the draft or the official branch
set_active_url_slug_branches(db, cpk, slug) ==
    IF Row(db.courses, cpk).draft
    THEN SetActiveUrlSlugDraft(db, cpk, slug)
    ELSE SetActiveUrlSlugOfficial(db, cpk, slug)

\* Course.set_active_url_slug (@transaction.atomic): [err, db]
set_active_url_slug(db, cpk, slug) ==
    LET Cleared(db1) ==
            IF slug # NoSlug /\ slug_already_in_use(db1, cpk, slug)
            THEN [err |-> "IntegrityError", db |-> db1]
            ELSE set_active_url_slug_branches(db1, cpk, slug)
    IN  Cleared([db EXCEPT !.cache = clear_slug_request_cache_for_course(
                                         db.cache, Row(db.courses, cpk).uuid)])

\* Course.set_subdirectory_slug; generated is the slug get_slug_for_course
\* returns, NoSlug when it returns an error instead
set_subdirectory_slug(db, cpk, generated) ==
    LET off == official_version(db.courses, cpk)
        \* the same slug on the official course, when there is one
        OnOfficial(r1) ==
            IF r1.err # NoError \/ off = NoPk THEN r1
            ELSE set_active_url_slug(r1.db, off, generated)
        Current(cur) ==
            IF cur.value # NoSlug /\ IsSubdirectoryFormat(cur.value)
            THEN [err |-> NoError, db |-> cur.db]
            ELSE IF generated = NoSlug THEN [err |-> "Exception", db |-> cur.db]
            ELSE OnOfficial(set_active_url_slug(cur.db, cpk, generated))
    IN  Current(active_url_slug(db, cpk))

---------------------------------------------------------------------------
(* Course-run predicates *)

Min(S) == CHOOSE x \in S : \A y \in S : x <= y

\* CourseRun.enrollment_deadline
enrollment_deadline(run) ==
    LET dates == {run.end, run.enrollment_end} \ {NoDate}
    IN  IF dates = {} THEN NoDate ELSE Min(dates)

\* the deadline compared with <= instead of <
HasEnrollmentEndedOrEndsNow(run, when) ==
    enrollment_deadline(run) # NoDate /\ enrollment_deadline(run) <= when

\* CourseRun.has_enrollment_ended(when)
has_enrollment_ended(run, when) ==
    enrollment_deadline(run) # NoDate /\ enrollment_deadline(run) < when

\* CourseRun.could_be_marketable
could_be_marketable(run) ==
    IF ~TypeIsMarketable(run.type) THEN FALSE
    ELSE IF KeyDeprecated(run.key) THEN FALSE
    ELSE ~run.draft

\* CourseRun.marketing_url is not None
has_marketing_url(run) == run.slug # NoSlug /\ TypeIsMarketable(run.type)

\* CourseRun.is_marketable
is_marketable(run) ==
    IF ~could_be_marketable(run) THEN FALSE
    ELSE run.status = Published /\ run.seats # {} /\ has_marketing_url(run)

---------------------------------------------------------------------------
(* Notifications sent by one call *)

NoEmails == [internal_review |-> 0, legal_review |-> 0, reviewed |-> 0,
             go_live |-> 0, watchers |-> 0]

AddEmails(a, b) == [k \in DOMAIN a |-> a[k] + b[k]]

\* the tail of handle_status_change: email_method(self), then the course
\* watchers' email when the run has a go-live date and is Reviewed or Published
StatusEmails(kind, run, status) ==
    [NoEmails EXCEPT ![kind] = 1,
                     !.watchers = IF run.go_live_date # NoDate /\ status \in {Reviewed, Published}
                                  THEN 1 ELSE 0]

---------------------------------------------------------------------------
(* The sweep: Course.unpublish_inactive_runs *)

\* the trigger handle_status_change finds for the new status of a draft run
StatusTrigger(status) ==
    IF status = LegalReview THEN "legal_review"
    ELSE IF status = InternalReview THEN "internal_review"
    ELSE IF status = Reviewed THEN "reviewed"
    ELSE IF status = Published THEN "go_live"
    ELSE "none"

\* the sweep that leaves the draft runs as they are
UnpublishInactiveRunsOfficialOnly(db, cpk, when) ==
    LET c == Row(db.courses, cpk)
        published_runs == {r \in db.runs : r.course = cpk /\ r.status = Published}
        inactive_runs == {r \in published_runs : has_enrollment_ended(r, when)}
        marketable_runs == {r \in published_runs \ inactive_runs : could_be_marketable(r)}
    IN  IF ~has_marketing_site(c.partner) THEN [ret |-> FALSE, db |-> db, emails |-> NoEmails]
        ELSE IF marketable_runs = {} \/ inactive_runs = {}
        THEN [ret |-> FALSE, db |-> db, emails |-> NoEmails]
        ELSE [ret |-> TRUE,
              db |-> [db EXCEPT !.runs = {IF r \in inactive_runs
                                          THEN [r EXCEPT !.status = Unpublished]
                                          ELSE r : r \in db.runs}],
              emails |-> NoEmails]

\* [ret, db, emails]; emails are those the saves of the draft runs send
unpublish_inactive_runs(db, cpk, when) ==
    LET c == Row(db.courses, cpk)
        published_runs == {r \in db.runs : r.course = cpk /\ r.status = Published}
        inactive_runs == {r \in published_runs : has_enrollment_ended(r, when)}
        marketable_runs == {r \in published_runs \ inactive_runs : could_be_marketable(r)}
        swept == {r.pk : r \in inactive_runs}
                    \cup {r.draft_version : r \in {x \in inactive_runs : x.draft_version # NoPk}}
        \* run.draft_version.save() handles the status change of the draft run
        changed == {d \in db.runs : d.pk \in swept /\ d.draft /\ d.status # Unpublished
                                     /\ StatusTrigger(Unpublished) # "none"}
        sent == [k \in DOMAIN NoEmails |->
                    Cardinality({d \in changed :
                        StatusEmails(StatusTrigger(Unpublished), d, Unpublished)[k] = 1})]
    IN  IF ~has_marketing_site(c.partner) THEN [ret |-> FALSE, db |-> db, emails |-> NoEmails]
        ELSE IF marketable_runs = {} \/ inactive_runs = {}
        THEN [ret |-> FALSE, db |-> db, emails |-> NoEmails]
        ELSE [ret |-> TRUE,
              db |-> [db EXCEPT !.runs = {IF r.pk \in swept
                                          THEN [r EXCEPT !.status = Unpublished]
                                          ELSE r : r \in db.runs}],
              emails |-> sent]

---------------------------------------------------------------------------
(* The promoter *)

\* a table without the constraint
NoUniqueTogether(runs, row) == TRUE

\* Meta.unique_together of CourseRun: (key, draft)
RunUniqueTogether(runs, row) ==
    \A r \in runs : r.pk # row.pk => ~(r.key = row.key /\ r.draft = row.draft)

\* Meta.unique_together of Course: (partner, key, draft)
CourseUniqueTogether(cs, row) ==
    \A c \in cs : c.pk # row.pk =>
        ~(c.partner = row.partner /\ c.key = row.key /\ c.draft = row.draft)

\* set_official_state saving the official run on a table without the constraint
SetOfficialStateRunUnchecked(db, dpk, opk) ==
    LET d == Row(db.runs, dpk)
        obj == IF opk = NoPk
               THEN [d EXCEPT !.pk = NextPk(db.runs, d.key, FALSE), !.draft = FALSE,
                              !.draft_version = dpk, !.seats = {}, !.restriction_type = ""]
               ELSE [d EXCEPT !.pk = opk, !.draft = FALSE, !.draft_version = dpk,
                              !.seats = Row(db.runs, opk).seats,
                              !.restriction_type = Row(db.runs, opk).restriction_type]
    IN  [err |-> NoError, db |-> [db EXCEPT !.runs = UpdateRow(db.runs, obj)], pk |-> obj.pk]

\* utils.set_official_state(draft_run, CourseRun): the official row is
\* created as a copy of the draft row, or overwritten in place; seats and the
\* restriction are rows of their own.  opk is what the lookup of the official
\* row returned, NoPk making the save an insert.  [err, db, pk]
SetOfficialStateRunSeen(db, dpk, opk) ==
    LET d == Row(db.runs, dpk)
        obj == IF opk = NoPk
               THEN [d EXCEPT !.pk = NextPk(db.runs, d.key, FALSE), !.draft = FALSE, !.draft_version = dpk,
                              !.seats = {}, !.restriction_type = ""]
               ELSE [d EXCEPT !.pk = opk, !.draft = FALSE, !.draft_version = dpk,
                              !.seats = Row(db.runs, opk).seats,
                              !.restriction_type = Row(db.runs, opk).restriction_type]
    IN  IF ~RunUniqueTogether(db.runs, obj)
        THEN [err |-> "IntegrityError", db |-> db, pk |-> NoPk]
        ELSE [err |-> NoError, db |-> [db EXCEPT !.runs = UpdateRow(db.runs, obj)], pk |-> obj.pk]

SetOfficialStateRun(db, dpk) == SetOfficialStateRunSeen(db, dpk, official_version(db.runs, dpk))

\* utils.set_official_state(draft_course, Course): canonical_course_run, a
\* relation to a versioned row, is not copied.  opk is what the lookup of the
\* official row returned.  [err, db, pk]
SetOfficialStateCourseSeen(db, dpk, opk) ==
    LET d == Row(db.courses, dpk)
        obj == IF opk = NoPk
               THEN [d EXCEPT !.pk = NextPk(db.courses, d.key, FALSE), !.draft = FALSE, !.draft_version = dpk,
                              !.canonical_course_run = NoPk, !.entitlement = ""]
               ELSE [d EXCEPT !.pk = opk, !.draft = FALSE, !.draft_version = dpk,
                              !.canonical_course_run = Row(db.courses, opk).canonical_course_run,
                              !.entitlement = Row(db.courses, opk).entitlement]
    IN  IF ~CourseUniqueTogether(db.courses, obj)
        THEN [err |-> "IntegrityError", db |-> db, pk |-> NoPk]
        ELSE [err |-> NoError, db |-> [db EXCEPT !.courses = UpdateRow(db.courses, obj)],
              pk |-> obj.pk]

SetOfficialStateCourse(db, dpk) ==
    SetOfficialStateCourseSeen(db, dpk, official_version(db.courses, dpk))

\* the course promotion leaving the slugs of the official course as they are
CourseUpdateOrCreateOfficialVersionKeepingSlug(db, dcpk, official_run) ==
    LET creating == official_version(db.courses, dcpk) = NoPk
        d == Row(db.courses, dcpk)
        \* the draft entitlement is made official for the entitlement modes only
        EntitledK(st) ==
            [st.db EXCEPT !.courses =
                {IF c.pk = st.pk /\ d.entitlement \in ENTITLEMENT_MODES
                 THEN [c EXCEPT !.entitlement = d.entitlement] ELSE c : c \in st.db.courses}]
        \* if creating: both courses get their canonical_course_run
        CanonicalK(st, sl) ==
            IF sl.err # NoError THEN [err |-> sl.err, db |-> RolledBack(db, sl.db), pk |-> NoPk]
            ELSE IF ~creating THEN [err |-> NoError, db |-> sl.db, pk |-> st.pk]
            ELSE [err |-> NoError,
                  db |-> [sl.db EXCEPT !.courses =
                            {IF c.pk = st.pk
                             THEN [c EXCEPT !.canonical_course_run = official_run]
                             ELSE IF c.pk = dcpk
                             THEN [c EXCEPT !.canonical_course_run =
                                                Row(sl.db.runs, official_run).draft_version]
                             ELSE c : c \in sl.db.courses}],
                  pk |-> st.pk]
        SluggedK(st, db2) == CanonicalK(st, [err |-> NoError, db |-> db2])
        OfficialCourseK(st) ==
            IF st.err # NoError THEN [err |-> st.err, db |-> db, pk |-> NoPk]
            ELSE SluggedK(st, EntitledK(st))
    IN  OfficialCourseK(SetOfficialStateCourse(db, dcpk))

\* the course promotion setting canonical_course_run every time
CourseUpdateOrCreateOfficialVersionAlwaysCanonical(db, dcpk, official_run) ==
    LET d == Row(db.courses, dcpk)
        \* the draft entitlement is made official for the entitlement modes only
        EntitledA(st) ==
            [st.db EXCEPT !.courses =
                {IF c.pk = st.pk /\ d.entitlement \in ENTITLEMENT_MODES
                 THEN [c EXCEPT !.entitlement = d.entitlement] ELSE c : c \in st.db.courses}]
        CanonicalA(st, sl) ==
            IF sl.err # NoError THEN [err |-> sl.err, db |-> RolledBack(db, sl.db), pk |-> NoPk]
            ELSE [err |-> NoError,
                  db |-> [sl.db EXCEPT !.courses =
                            {IF c.pk = st.pk
                             THEN [c EXCEPT !.canonical_course_run = official_run]
                             ELSE IF c.pk = dcpk
                             THEN [c EXCEPT !.canonical_course_run =
                                                Row(sl.db.runs, official_run).draft_version]
                             ELSE c : c \in sl.db.courses}],
                  pk |-> st.pk]
        \* official_version.set_active_url_slug(self.active_url_slug)
        ActivatedA(st, cur) ==
            CanonicalA(st, set_active_url_slug(cur.db, st.pk, cur.value))
        SluggedA(st, db2) == ActivatedA(st, active_url_slug(db2, dcpk))
        OfficialCourseA(st) ==
            IF st.err # NoError THEN [err |-> st.err, db |-> db, pk |-> NoPk]
            ELSE SluggedA(st, EntitledA(st))
    IN  OfficialCourseA(SetOfficialStateCourse(db, dcpk))

\* Course._update_or_create_official_version(course_run): [err, db, pk]
CourseUpdateOrCreateOfficialVersion(db, dcpk, official_run) ==
    LET creating == official_version(db.courses, dcpk) = NoPk
        d == Row(db.courses, dcpk)
        \* the draft entitlement is made official for the entitlement modes only
        Entitled(st) ==
            [st.db EXCEPT !.courses =
                {IF c.pk = st.pk /\ d.entitlement \in ENTITLEMENT_MODES
                 THEN [c EXCEPT !.entitlement = d.entitlement] ELSE c : c \in st.db.courses}]
        \* if creating: both courses get their canonical_course_run
        Canonical(st, sl) ==
            IF sl.err # NoError THEN [err |-> sl.err, db |-> RolledBack(db, sl.db), pk |-> NoPk]
            ELSE IF ~creating THEN [err |-> NoError, db |-> sl.db, pk |-> st.pk]
            ELSE [err |-> NoError,
                  db |-> [sl.db EXCEPT !.courses =
                            {IF c.pk = st.pk
                             THEN [c EXCEPT !.canonical_course_run = official_run]
                             ELSE IF c.pk = dcpk
                             THEN [c EXCEPT !.canonical_course_run =
                                                Row(sl.db.runs, official_run).draft_version]
                             ELSE c : c \in sl.db.courses}],
                  pk |-> st.pk]
        \* official_version.set_active_url_slug(self.active_url_slug)
        Activated(st, cur) ==
            Canonical(st, set_active_url_slug(cur.db, st.pk, cur.value))
        Slugged(st, db2) == Activated(st, active_url_slug(db2, dcpk))
        OfficialCourse(st) ==
            IF st.err # NoError THEN [err |-> st.err, db |-> db, pk |-> NoPk]
            ELSE Slugged(st, Entitled(st))
    IN  OfficialCourse(SetOfficialStateCourse(db, dcpk))

\* the promoter leaving the official run on the course of the draft run
PromoteWithoutCourse(db, dpk) ==
    LET d == Row(db.runs, dpk)
        SeatedM(st) ==
            [st.db EXCEPT !.runs =
                {IF r.pk = st.pk
                 THEN [r EXCEPT !.seats = r.seats \cup d.seats,
                                !.restriction_type = IF d.restriction_type # ""
                                                     THEN d.restriction_type
                                                     ELSE r.restriction_type]
                 ELSE r : r \in st.db.runs}]
        AttachedM(st, oc) ==
            IF oc.err # NoError THEN [err |-> oc.err, db |-> RolledBack(db, oc.db), pk |-> NoPk]
            ELSE [err |-> NoError,
                  db |-> [oc.db EXCEPT !.runs =
                            {IF r.pk = st.pk THEN [r EXCEPT !.slug = d.slug]
                             ELSE r : r \in oc.db.runs}],
                  pk |-> st.pk]
        OfficialRunM(st) ==
            IF st.err # NoError THEN [err |-> st.err, db |-> db, pk |-> NoPk]
            ELSE AttachedM(st, CourseUpdateOrCreateOfficialVersion(SeatedM(st), d.course, st.pk))
    IN  OfficialRunM(SetOfficialStateRun(db, dpk))

\* CourseRun.update_or_create_official_version: [err, db, pk]
update_or_create_official_version(db, dpk) ==
    LET d == Row(db.runs, dpk)
        \* every draft seat, and the draft restriction if there is one, is made official
        Seated(st) ==
            [st.db EXCEPT !.runs =
                {IF r.pk = st.pk
                 THEN [r EXCEPT !.seats = r.seats \cup d.seats,
                                !.restriction_type = IF d.restriction_type # ""
                                                     THEN d.restriction_type
                                                     ELSE r.restriction_type]
                 ELSE r : r \in st.db.runs}]
        \* official_version.slug, official_version.course, official_version.save()
        Attached(st, oc) ==
            IF oc.err # NoError THEN [err |-> oc.err, db |-> RolledBack(db, oc.db), pk |-> NoPk]
            ELSE [err |-> NoError,
                  db |-> [oc.db EXCEPT !.runs =
                            {IF r.pk = st.pk THEN [r EXCEPT !.slug = d.slug, !.course = oc.pk]
                             ELSE r : r \in oc.db.runs}],
                  pk |-> st.pk]
        OfficialRun(st) ==
            IF st.err # NoError THEN [err |-> st.err, db |-> db, pk |-> NoPk]
            ELSE Attached(st, CourseUpdateOrCreateOfficialVersion(Seated(st), d.course, st.pk))
    IN  OfficialRun(SetOfficialStateRun(db, dpk))

\* update_or_create_official_version of a worker whose lookups of the
\* official run and of the official course returned seen_run and seen_course
\* before other workers committed: a lookup that found no row makes the save
\* of set_official_state an insert, whatever the store holds by now; the rest
\* runs on the store as it is.  [err, db, pk]
update_or_create_official_version_seen(db, dpk, seen_run, seen_course) ==
    LET d == Row(db.runs, dpk)
        Final(r) == IF r.err # NoError THEN [r EXCEPT !.db = RolledBack(db, r.db)] ELSE r
        Rest(st) ==
            IF st.err # NoError
            THEN [err |-> st.err, db |-> RolledBack(db, st.db), pk |-> NoPk]
            ELSE Final(update_or_create_official_version(st.db, dpk))
        StaleCourse(st) ==
            IF st.err = NoError /\ seen_course = NoPk
               /\ official_version(st.db.courses, d.course) # NoPk
            THEN Rest(SetOfficialStateCourseSeen(st.db, d.course, NoPk))
            ELSE Rest(st)
    IN  IF seen_run = NoPk /\ official_version(db.runs, dpk) # NoPk
        THEN StaleCourse(SetOfficialStateRunSeen(db, dpk, NoPk))
        ELSE StaleCourse([err |-> NoError, db |-> db, pk |-> NoPk])

---------------------------------------------------------------------------
(* Publication *)

\* publish without the redirect from the run's slug
PublishWithoutRedirect(db, opk, when) ==
    LET o == Row(db.runs, opk)
        course == Row(db.courses, o.course)
        \* the run and its draft are saved Published, announced now
        saved == {IF r.pk \in {opk, o.draft_version}
                  THEN [r EXCEPT !.announcement = when, !.status = Published]
                  ELSE r : r \in db.runs}
        \* the draft's save handles its status change: the go-live email
        emails == IF \E dr \in db.runs : dr.pk = o.draft_version /\ dr.status # Published
                  THEN StatusEmails("go_live", Row(db.runs, o.draft_version), Published)
                  ELSE NoEmails
        RedirectedM(sw) == [err |-> NoError, ret |-> TRUE, db |-> sw.db, emails |-> emails]
    IN  IF o.draft THEN [err |-> NoError, ret |-> FALSE, db |-> db, emails |-> NoEmails]
        ELSE RedirectedM(unpublish_inactive_runs([db EXCEPT !.runs = saved], o.course, when))

\* CourseRun.publish on an official run: [err, ret, db, emails].  On an
\* exception db is what the store holds when it is raised.
publish(db, opk, when) ==
    LET o == Row(db.runs, opk)
        course == Row(db.courses, o.course)
        \* the run and its draft are saved Published, announced now
        saved == {IF r.pk \in {opk, o.draft_version}
                  THEN [r EXCEPT !.announcement = when, !.status = Published]
                  ELSE r : r \in db.runs}
        \* the draft's save handles its status change: the go-live email
        emails == IF \E dr \in db.runs : dr.pk = o.draft_version /\ dr.status # Published
                  THEN StatusEmails("go_live", Row(db.runs, o.draft_version), Published)
                  ELSE NoEmails
        \* the redirect from the run's slug, after the sweep
        Redirected(sw) ==
            LET existing == {s \in sw.db.slugs :
                                s.url_slug = o.slug /\ s.partner = course.partner}
                redirect == [pk |-> NextSlugPk(sw.db.slugs), course |-> o.course,
                             partner |-> course.partner, url_slug |-> o.slug,
                             is_active |-> FALSE, is_active_on_draft |-> FALSE]
            IN  IF existing # {} /\ Row(db.courses, First(existing).course).uuid = course.uuid
                THEN [err |-> NoError, ret |-> TRUE, db |-> sw.db, emails |-> emails]
                ELSE IF ~SlugUniqueTogether(sw.db.slugs, redirect)
                THEN [err |-> "IntegrityError", ret |-> FALSE, db |-> sw.db, emails |-> emails]
                ELSE [err |-> NoError, ret |-> TRUE,
                      db |-> [sw.db EXCEPT !.slugs = sw.db.slugs \cup {redirect}],
                      emails |-> emails]
    IN  IF o.draft THEN [err |-> NoError, ret |-> FALSE, db |-> db, emails |-> NoEmails]
        ELSE Redirected(unpublish_inactive_runs([db EXCEPT !.runs = saved], o.course, when))

---------------------------------------------------------------------------
(* CourseRun.save and handle_status_change, for a draft run *)

\* handle_status_change not telling official rows from draft rows
HandleStatusChangeOfAnyRow(db, dpk, old_status, when, subdirectory_enabled, generated) ==
    LET d == Row(db.runs, dpk)
        InLegalReviewM(sub) ==
            [err |-> sub.err, db |-> sub.db,
             emails |-> IF sub.err # NoError THEN NoEmails
                        ELSE StatusEmails("legal_review", d, d.status)]
        GoneLiveM(pub) == [err |-> pub.err, db |-> pub.db, emails |-> pub.emails]
        \* due to go live already: publish at once, else the reviewed email
        PromotedM(pro) ==
            IF pro.err # NoError
            THEN [err |-> pro.err, db |-> RolledBack(db, pro.db), emails |-> NoEmails]
            ELSE IF d.go_live_date # NoDate /\ d.go_live_date <= when
            THEN GoneLiveM(publish(pro.db, pro.pk, when))
            ELSE [err |-> NoError, db |-> pro.db, emails |-> StatusEmails("reviewed", d, d.status)]
    IN  IF old_status = d.status THEN [err |-> NoError, db |-> db, emails |-> NoEmails]
        ELSE IF d.status = LegalReview
        THEN IF subdirectory_enabled
             THEN InLegalReviewM(set_subdirectory_slug(db, d.course, generated))
             ELSE [err |-> NoError, db |-> db, emails |-> StatusEmails("legal_review", d, d.status)]
        ELSE IF d.status = InternalReview
        THEN [err |-> NoError, db |-> db, emails |-> StatusEmails("internal_review", d, d.status)]
        ELSE IF d.status = Reviewed
        THEN PromotedM(update_or_create_official_version(db, dpk))
        ELSE IF d.status = Published
        THEN [err |-> NoError, db |-> db, emails |-> StatusEmails("go_live", d, d.status)]
        ELSE [err |-> NoError, db |-> db, emails |-> NoEmails]

\* handle_status_change of a run whose status changed from old_status to the
\* status of its row in db: [err, db, emails]
handle_status_change(db, dpk, old_status, when, subdirectory_enabled, generated) ==
    LET d == Row(db.runs, dpk)
        InLegalReview(sub) ==
            [err |-> sub.err, db |-> sub.db,
             emails |-> IF sub.err # NoError THEN NoEmails
                        ELSE StatusEmails("legal_review", d, d.status)]
        GoneLive(pub) == [err |-> pub.err, db |-> pub.db, emails |-> pub.emails]
        \* due to go live already: publish at once, else the reviewed email
        Promoted(pro) ==
            IF pro.err # NoError
            THEN [err |-> pro.err, db |-> RolledBack(db, pro.db), emails |-> NoEmails]
            ELSE IF d.go_live_date # NoDate /\ d.go_live_date <= when
            THEN GoneLive(publish(pro.db, pro.pk, when))
            ELSE [err |-> NoError, db |-> pro.db, emails |-> StatusEmails("reviewed", d, d.status)]
    IN  IF old_status = d.status THEN [err |-> NoError, db |-> db, emails |-> NoEmails]
        \* we currently only care about draft course runs
        ELSE IF ~d.draft THEN [err |-> NoError, db |-> db, emails |-> NoEmails]
        ELSE IF d.status = LegalReview
        THEN IF subdirectory_enabled
             THEN InLegalReview(set_subdirectory_slug(db, d.course, generated))
             ELSE [err |-> NoError, db |-> db, emails |-> StatusEmails("legal_review", d, d.status)]
        ELSE IF d.status = InternalReview
        THEN [err |-> NoError, db |-> db, emails |-> StatusEmails("internal_review", d, d.status)]
        ELSE IF d.status = Reviewed
        THEN Promoted(update_or_create_official_version(db, dpk))
        ELSE IF d.status = Published
        THEN [err |-> NoError, db |-> db, emails |-> StatusEmails("go_live", d, d.status)]
        ELSE [err |-> NoError, db |-> db, emails |-> NoEmails]

\* a save whose status write is committed before the side effects run
SaveDraftRunStatusCommittedFirst(db, dpk, status, when, subdirectory_enabled, generated) ==
    LET d == Row(db.runs, dpk)
        written == [db EXCEPT !.runs = UpdateRow(db.runs, [d EXCEPT !.status = status])]
        SavedF(h) == IF h.err # NoError
                     THEN [err |-> h.err, db |-> RolledBack(written, h.db), emails |-> h.emails]
                     ELSE h
    IN  SavedF(handle_status_change(written, dpk, d.status, when, subdirectory_enabled,
                                    generated))

\* a save that does not remember the status the instance was loaded with
SaveDraftRunForgettingOldStatus(db, dpk, status, when, subdirectory_enabled, generated) ==
    LET d == Row(db.runs, dpk)
        SavedG(h) == IF h.err # NoError
                     THEN [err |-> h.err, db |-> RolledBack(db, h.db), emails |-> h.emails]
                     ELSE h
    IN  SavedG(handle_status_change(
                   [db EXCEPT !.runs = UpdateRow(db.runs, [d EXCEPT !.status = status])],
                   dpk, "", when, subdirectory_enabled, generated))

\* CourseRun.save of a freshly loaded draft run whose status was set to
\* status; everything runs in one transaction: [err, db, emails]
save_draft_run(db, dpk, status, when, subdirectory_enabled, generated) ==
    LET d == Row(db.runs, dpk)
        \* an exception rolls the transaction back
        Saved(h) == IF h.err # NoError
                    THEN [err |-> h.err, db |-> RolledBack(db, h.db), emails |-> h.emails]
                    ELSE h
    IN  Saved(handle_status_change(
                  [db EXCEPT !.runs = UpdateRow(db.runs, [d EXCEPT !.status = status])],
                  dpk, d.status, when, subdirectory_enabled, generated))

\* CourseRun.save of a draft run set to Reviewed, during which the push to
\* e-commerce or to the LMS that ends update_or_create_official_version
\* raises: [err, db, emails]
save_draft_run_push_raising(db, dpk, when) ==
    LET d == Row(db.runs, dpk)
        \* the exception leaves handle_status_change and the atomic block of save
        Pushed(pro) ==
            IF pro.err # NoError
            THEN [err |-> pro.err, db |-> RolledBack(db, pro.db), emails |-> NoEmails]
            ELSE [err |-> "CollaboratorError", db |-> RolledBack(db, pro.db),
                  emails |-> NoEmails]
    IN  Pushed(update_or_create_official_version(
                   [db EXCEPT !.runs = UpdateRow(db.runs, [d EXCEPT !.status = Reviewed])], dpk))

\* CourseRun.save of a freshly loaded official run whose status was set to
\* status: [err, db, emails]
save_official_run(db, opk, status, when, subdirectory_enabled, generated) ==
    LET o == Row(db.runs, opk)
        SavedO(h) == IF h.err # NoError
                     THEN [err |-> h.err, db |-> RolledBack(db, h.db), emails |-> h.emails]
                     ELSE h
    IN  SavedO(handle_status_change(
                   [db EXCEPT !.runs = UpdateRow(db.runs, [o EXCEPT !.status = status])],
                   opk, o.status, when, subdirectory_enabled, generated))

---------------------------------------------------------------------------
(* The state machine *)

\* what the last call was and how it ended
Call(op, pk, arg, err, ret, emails) ==
    [op |-> op, pk |-> pk, arg |-> arg, err |-> err, ret |-> ret, emails |-> emails]

Commit(db) ==
    /\ courses' = db.courses
    /\ course_runs' = db.runs
    /\ url_slugs' = db.slugs
    /\ cache' = db.cache
    /\ invalidated' = invalidated \cup (cache \ db.cache)

Store == DB(courses, course_runs, url_slugs, cache)

\* invalidated is a history variable: the entries the calls of the request
\* being served have dropped from its request cache

\* BulkOperationStatus
Pending == "pending"
Processing == "processing"
Completed == "completed"
Failed == "failed"

\* ids of the BulkOperationTask rows, and the task types uploaded
BulkTaskIds == {1, 2}
BulkTaskTypes == {"course_create", "course_rerun"}

\* what loader.ingest() returns
Summaries == {"all rows ingested", "some rows failed"}
\* a NULL task_summary
NoSummary == ""

\* no process_bulk_operation is running; result is how the last one ended:
\* the id it was given and the exception it raised to its caller.  A running
\* call has the row it loaded in task, bound telling whether the local
\* variable bulk_operation_task was assigned
NoBulkCall == [pc |-> "idle", id |-> 0, bound |-> FALSE, task |-> <<>>, exc |-> NoError,
               summary |-> NoSummary, result |-> [id |-> 0, raised |-> NoError, caught |-> NoError]]

\* a worker between calls, and a worker inside a call on the row pk with the
\* slug it was given and what its lookups returned
Idle == [pc |-> "idle", pk |-> NoPk, slug |-> NoSlug, run |-> NoPk, course |-> NoPk]

Init ==
    /\ courses = {}
    /\ course_runs = {}
    /\ url_slugs = {}
    /\ cache = {}
    /\ invalidated = {}
    /\ now = 1
    /\ lastCall = Call("init", NoPk, "", NoError, FALSE, NoEmails)
    /\ workers = [w \in Workers |-> Idle]
    /\ bulk_tasks = {}
    /\ bulk_call = NoBulkCall

\* time passes
Tick ==
    /\ now < MaxNow
    /\ now' = now + 1
    /\ lastCall' = Call("tick", NoPk, "", NoError, FALSE, NoEmails)
    /\ UNCHANGED <<courses, course_runs, url_slugs, cache, invalidated, workers, bulk>>

\* an editor creates a course: a draft row (Course.save, insert)
CreateDraftCourse(inputs) ==
    \E in \in inputs :
        LET row == [pk |-> NextPk(courses, in[2], TRUE), uuid |-> NextPk(courses, in[2], TRUE),
                    partner |-> in[1],
                    key |-> in[2], draft |-> TRUE, draft_version |-> NoPk,
                    canonical_course_run |-> NoPk, entitlement |-> in[3]]
        IN  /\ CourseUniqueTogether(courses, row)
            /\ courses' = courses \cup {row}
            /\ lastCall' = Call("create_course", row.pk, "", NoError, FALSE, NoEmails)
            /\ UNCHANGED <<course_runs, url_slugs, cache, invalidated, now, workers, bulk>>

\* an editor creates a run of a draft course: a draft row with the default
\* status (CourseRun.save, insert)
CreateDraftRun(inputs) ==
    \E c \in {x \in courses : x.draft}, in \in inputs :
        LET row == [pk |-> NextPk(course_runs, in[1], TRUE), key |-> in[1], course |-> c.pk,
                    draft |-> TRUE,
                    draft_version |-> NoPk, status |-> Unpublished, announcement |-> NoDate,
                    end |-> in[2], enrollment_end |-> in[3], go_live_date |-> in[4],
                    slug |-> RunSlug(in[1]), type |-> in[5], seats |-> {},
                    restriction_type |-> in[6]]
        IN  /\ RunUniqueTogether(course_runs, row)
            /\ course_runs' = course_runs \cup {row}
            /\ lastCall' = Call("create_run", row.pk, "", NoError, FALSE, NoEmails)
            /\ UNCHANGED <<courses, url_slugs, cache, invalidated, now, workers, bulk>>

\* CourseRun.update_or_create_seats(run_type) on a draft run
UpdateOrCreateSeats ==
    \E d \in {r \in course_runs : r.draft} :
        LET off == official_version(course_runs, d.pk)
            seat_types == TypeSeatTypes(d.type)
            \* validate_seat_upgrade
            old_types == IF off = NoPk THEN {} ELSE Row(course_runs, off).seats
            new_types == IF seat_types \cap REQUIRES_AUDIT_SEAT # {}
                         THEN seat_types \cup {"audit"} ELSE seat_types
            valid == old_types \ new_types = {}
        IN  /\ lastCall' = Call("update_or_create_seats", d.pk, "",
                                IF valid THEN NoError ELSE "ValidationError", FALSE, NoEmails)
            /\ course_runs' = IF valid THEN UpdateRow(course_runs, [d EXCEPT !.seats = seat_types])
                              ELSE course_runs
            /\ UNCHANGED <<courses, url_slugs, cache, invalidated, now, workers, bulk>>

\* Course.set_active_url_slug(slug) on a draft or an official course
SetActiveUrlSlugTo(slugs) ==
    \E c \in courses, slug \in slugs :
        LET Returned(r) ==
                /\ Commit(r.db)
                /\ lastCall' = Call("set_active_url_slug", c.pk, slug, r.err, FALSE, NoEmails)
        IN  /\ Returned(set_active_url_slug(Store, c.pk, slug))
            /\ UNCHANGED <<now, workers, bulk>>

SetActiveUrlSlug == SetActiveUrlSlugTo(SlugInputs)

\* an editor saves a draft run with a status; toggles are the values of
\* IS_SUBDIRECTORY_SLUG_FORMAT_ENABLED, generated what get_slug_for_course returns
SaveDraftRun(statuses, toggles, generated) ==
    \E d \in {r \in course_runs : r.draft}, status \in statuses,
       subdirectory_enabled \in toggles, gen \in generated :
        LET Returned(r) ==
                /\ Commit(r.db)
                /\ lastCall' = Call("save", d.pk, status, r.err, FALSE, r.emails)
        IN  /\ Returned(save_draft_run(Store, d.pk, status, now, subdirectory_enabled, gen))
            /\ UNCHANGED <<now, workers, bulk>>

\* an editor saves a draft run as Reviewed and the push to e-commerce or to
\* the LMS raises
SaveDraftRunPushRaises ==
    \E d \in {r \in course_runs : r.draft /\ r.status # Reviewed} :
        LET Returned(r) ==
                /\ Commit(r.db)
                /\ lastCall' = Call("save", d.pk, Reviewed, r.err, FALSE, r.emails)
        IN  /\ Returned(save_draft_run_push_raising(Store, d.pk, now))
            /\ UNCHANGED <<now, workers, bulk>>

\* an official run is saved with a status
SaveOfficialRun(statuses) ==
    \E o \in {r \in course_runs : ~r.draft}, status \in statuses :
        LET Returned(r) ==
                /\ Commit(r.db)
                /\ lastCall' = Call("save", o.pk, status, r.err, FALSE, r.emails)
        IN  /\ Returned(save_official_run(Store, o.pk, status, now, FALSE, NoSlug))
            /\ UNCHANGED <<now, workers, bulk>>

\* CourseRun.update_or_create_official_version() called on a draft run
Promote ==
    \E d \in {r \in course_runs : r.draft} :
        LET Returned(r) ==
                /\ Commit(r.db)
                /\ lastCall' = Call("update_or_create_official_version", d.pk, "", r.err,
                                    FALSE, NoEmails)
        IN  /\ Returned(update_or_create_official_version(Store, d.pk))
            /\ UNCHANGED <<now, workers, bulk>>

\* CourseRun.publish() called on a run
Publish ==
    \E o \in course_runs :
        LET Returned(r) ==
                /\ Commit(r.db)
                /\ lastCall' = Call("publish", o.pk, "", r.err, r.ret, r.emails)
        IN  /\ Returned(publish(Store, o.pk, now))
            /\ UNCHANGED <<now, workers, bulk>>

\* Course.unpublish_inactive_runs() called on a course
Sweep ==
    \E c \in courses :
        LET Returned(r) ==
                /\ Commit(r.db)
                /\ lastCall' = Call("unpublish_inactive_runs", c.pk, "", NoError, r.ret,
                                    r.emails)
        IN  /\ Returned(unpublish_inactive_runs(Store, c.pk, now))
            /\ UNCHANGED <<now, workers, bulk>>

\* the statuses an editor gives a draft run
EditorStatuses == CourseRunStatus \ {Published}

\* a worker enters Course.set_active_url_slug(slug): the request cache is
\* cleared and case 0 looks the slug up; the call returns if it is in use
BeginSetActiveUrlSlug(slugs) ==
    \E w \in Workers, c \in courses, slug \in slugs :
        LET db1 == [Store EXCEPT !.cache = clear_slug_request_cache_for_course(cache, c.uuid)]
        IN  /\ workers[w] = Idle
            /\ Commit(db1)
            /\ IF slug_already_in_use(db1, c.pk, slug)
               THEN /\ lastCall' = Call("set_active_url_slug", c.pk, slug, "IntegrityError",
                                        FALSE, NoEmails)
                    /\ UNCHANGED workers
               ELSE /\ workers' = [workers EXCEPT ![w] =
                                      [Idle EXCEPT !.pc = "slug_checked", !.pk = c.pk,
                                                   !.slug = slug]]
                    /\ UNCHANGED lastCall
            /\ UNCHANGED <<now, bulk>>

\* the worker runs the branch of set_active_url_slug and its transaction ends
FinishSetActiveUrlSlug ==
    \E w \in Workers :
        LET Returned(r) ==
                /\ Commit(r.db)
                /\ lastCall' = Call("set_active_url_slug", workers[w].pk, workers[w].slug,
                                    r.err, FALSE, NoEmails)
        IN  /\ workers[w].pc = "slug_checked"
            /\ Returned(set_active_url_slug_branches(Store, workers[w].pk, workers[w].slug))
            /\ workers' = [workers EXCEPT ![w] = Idle]
            /\ UNCHANGED <<now, bulk>>

\* a worker enters update_or_create_official_version on a draft run:
\* set_official_state looks the official run up
PromoteLookUpRun ==
    \E w \in Workers, d \in {r \in course_runs : r.draft} :
        /\ workers[w] = Idle
        /\ workers' = [workers EXCEPT ![w] =
                          [Idle EXCEPT !.pc = "run_seen", !.pk = d.pk,
                                       !.run = official_version(course_runs, d.pk)]]
        /\ UNCHANGED <<courses, course_runs, url_slugs, cache, invalidated, now, lastCall, bulk>>

\* _update_or_create_official_version looks the official course up
PromoteLookUpCourse ==
    \E w \in Workers :
        /\ workers[w].pc = "run_seen"
        /\ workers' = [workers EXCEPT ![w] =
                          [workers[w] EXCEPT
                              !.pc = "course_seen",
                              !.course = official_version(
                                             courses, Row(course_runs, workers[w].pk).course)]]
        /\ UNCHANGED <<courses, course_runs, url_slugs, cache, invalidated, now, lastCall, bulk>>

\* the worker's writes reach the store and its transaction ends
PromoteFinish ==
    \E w \in Workers :
        LET Returned(r) ==
                /\ Commit(r.db)
                /\ lastCall' = Call("update_or_create_official_version", workers[w].pk, "",
                                    r.err, FALSE, NoEmails)
        IN  /\ workers[w].pc = "course_seen"
            /\ Returned(update_or_create_official_version_seen(
                            Store, workers[w].pk, workers[w].run, workers[w].course))
            /\ workers' = [workers EXCEPT ![w] = Idle]
            /\ UNCHANGED <<now, bulk>>

\* a user uploads a csv file: BulkOperationTask.save(user=...) inserts the row
CreateBulkTask ==
    \E id \in BulkTaskIds, type \in BulkTaskTypes :
        /\ ~\E t \in bulk_tasks : t.id = id
        /\ bulk_tasks' = bulk_tasks \cup
                {[id |-> id, task_type |-> type, status |-> Pending,
                  task_summary |-> NoSummary, uploaded_by |-> "user"]}
        /\ UNCHANGED <<courses, course_runs, url_slugs, cache, invalidated, now, lastCall,
                       workers, bulk_call>>

\* Celery starts process_bulk_operation(id) for a task that has not been
\* processed; BulkOperationTask.objects.get(id=id) raises DoesNotExist when
\* the row is not in the table
BulkGet ==
    \E id \in BulkTaskIds :
        /\ bulk_call.pc = "idle"
        /\ ~\E t \in bulk_tasks : t.id = id /\ t.status # Pending
        /\ bulk_call' =
              IF \E t \in bulk_tasks : t.id = id
              THEN [NoBulkCall EXCEPT !.pc = "select", !.id = id, !.bound = TRUE,
                                      !.task = CHOOSE t \in bulk_tasks : t.id = id,
                                      !.result = bulk_call.result]
              ELSE [NoBulkCall EXCEPT !.pc = "except", !.id = id, !.exc = "DoesNotExist",
                                      !.result = bulk_call.result]
        /\ UNCHANGED <<courses, course_runs, url_slugs, cache, invalidated, now, lastCall,
                       workers, bulk_tasks>>

\* select_and_init_bulk_operation_loader returns a loader, or raises because
\* the default partner is missing
BulkSelectLoader ==
    \E raises \in BOOLEAN :
        /\ bulk_call.pc = "select"
        /\ bulk_call' = IF raises
                        THEN [bulk_call EXCEPT !.pc = "except", !.exc = "PartnerDoesNotExist"]
                        ELSE [bulk_call EXCEPT !.pc = "save_processing"]
        /\ UNCHANGED <<courses, course_runs, url_slugs, cache, invalidated, now, lastCall,
                       workers, bulk_tasks>>

\* Model.save() of the loaded instance: the row with its id is overwritten
SaveBulkTask(tasks, task) == {t \in tasks : t.id # task.id} \cup {task}

\* bulk_operation_task.status = Processing; bulk_operation_task.save()
BulkSaveProcessing ==
    LET task == [bulk_call.task EXCEPT !.status = Processing]
    IN  /\ bulk_call.pc = "save_processing"
        /\ bulk_tasks' = SaveBulkTask(bulk_tasks, task)
        /\ bulk_call' = [bulk_call EXCEPT !.pc = "ingest", !.task = task]
        /\ UNCHANGED <<courses, course_runs, url_slugs, cache, invalidated, now, lastCall,
                       workers>>

\* summary = loader.ingest(): returns a summary or raises
BulkIngest ==
    \/ \E summary \in Summaries :
          /\ bulk_call.pc = "ingest"
          /\ bulk_call' = [bulk_call EXCEPT !.pc = "save_completed", !.summary = summary]
          /\ UNCHANGED <<courses, course_runs, url_slugs, cache, invalidated, now, lastCall,
                         workers, bulk_tasks>>
    \/ /\ bulk_call.pc = "ingest"
       /\ bulk_call' = [bulk_call EXCEPT !.pc = "except", !.exc = "IngestError"]
       /\ UNCHANGED <<courses, course_runs, url_slugs, cache, invalidated, now, lastCall,
                      workers, bulk_tasks>>

\* task_summary = summary; status = Completed; save(); the task returns
BulkSaveCompleted ==
    LET task == [bulk_call.task EXCEPT !.task_summary = bulk_call.summary,
                                       !.status = Completed]
    IN  /\ bulk_call.pc = "save_completed"
        /\ bulk_tasks' = SaveBulkTask(bulk_tasks, task)
        /\ bulk_call' = [NoBulkCall EXCEPT
                            !.result = [id |-> bulk_call.id, raised |-> NoError,
                                        caught |-> NoError]]
        /\ UNCHANGED <<courses, course_runs, url_slugs, cache, invalidated, now, lastCall,
                       workers>>

\* except Exception as exc: status = Failed; save(); raise exc.  When get()
\* raised, bulk_operation_task was never assigned and the handler's first
\* statement raises UnboundLocalError instead
BulkExcept ==
    /\ bulk_call.pc = "except"
    /\ IF bulk_call.bound
       THEN /\ bulk_tasks' = SaveBulkTask(bulk_tasks, [bulk_call.task EXCEPT !.status = Failed])
            /\ bulk_call' = [NoBulkCall EXCEPT
                                !.result = [id |-> bulk_call.id, raised |-> bulk_call.exc,
                                            caught |-> bulk_call.exc]]
       ELSE /\ UNCHANGED bulk_tasks
            /\ bulk_call' = [NoBulkCall EXCEPT
                                !.result = [id |-> bulk_call.id, raised |-> "UnboundLocalError",
                                            caught |-> bulk_call.exc]]
    /\ UNCHANGED <<courses, course_runs, url_slugs, cache, invalidated, now, lastCall, workers>>

\* two courses of two partners, their slugs, and one run
Next ==
    \/ CreateDraftCourse(CourseInputs)
    \/ CreateDraftRun(RunInputs)
    \/ UpdateOrCreateSeats
    \/ SetActiveUrlSlug
    \/ SaveDraftRun(EditorStatuses, {FALSE}, {NoSlug})
    \/ Promote
    \/ Publish

Spec == Init /\ [][Next]_vars

\* one course, two runs with their dates, and the sweep
NextSweep ==
    \/ Tick
    \/ CreateDraftCourse(OneCourseInput)
    \/ CreateDraftRun(SweepRunInputs)
    \/ UpdateOrCreateSeats
    \/ SaveDraftRun({Unpublished, Reviewed}, {FALSE}, {NoSlug})
    \/ Publish
    \/ Sweep

SpecSweep == Init /\ [][NextSweep]_vars

\* the request being served reads Course.active_url_slug of a course; arg
\* of the call is the value returned
ReadActiveUrlSlug ==
    \E c \in courses :
        LET Returned(r) ==
                /\ Commit(r.db)
                /\ lastCall' = Call("active_url_slug", c.pk, r.value, NoError, FALSE, NoEmails)
        IN  /\ Returned(active_url_slug(Store, c.pk))
            /\ UNCHANGED <<now, workers, bulk>>

\* the request ends: RequestCacheMiddleware clears the request cache
EndRequest ==
    /\ cache # {} \/ invalidated # {}
    /\ cache' = {}
    /\ invalidated' = {}
    /\ lastCall' = Call("end_request", NoPk, "", NoError, FALSE, NoEmails)
    /\ UNCHANGED <<courses, course_runs, url_slugs, now, workers, bulk>>

\* two courses of two partners, one run, and the slug registry
NextSlug ==
    \/ CreateDraftCourse(CourseInputs)
    \/ CreateDraftRun(SlugRunInputs)
    \/ SetActiveUrlSlug
    \/ Promote
    \/ Publish

SpecSlug == Init /\ [][NextSlug]_vars

\* one course, its slugs and promotions, in requests made of several calls
NextCache ==
    \/ CreateDraftCourse(OneCourseInput)
    \/ CreateDraftRun(SlugRunInputs)
    \/ SetActiveUrlSlug
    \/ Promote
    \/ ReadActiveUrlSlug
    \/ EndRequest

SpecCache == Init /\ [][NextCache]_vars

\* courses with two runs, promoted run by run
NextCanonical ==
    \/ CreateDraftCourse(CourseInputs)
    \/ CreateDraftRun(TwoRunInputs)
    \/ UpdateOrCreateSeats
    \/ Promote

SpecCanonical == Init /\ [][NextCanonical]_vars

\* official runs saved with a status of their own
NextOfficial ==
    \/ CreateDraftCourse(CourseInputs)
    \/ CreateDraftRun(RunInputs)
    \/ UpdateOrCreateSeats
    \/ Promote
    \/ SaveOfficialRun(CourseRunStatus)

SpecOfficial == Init /\ [][NextOfficial]_vars

\* saves of the runs of two courses of one partner that name their slugs
NextNotify ==
    \/ CreateDraftCourse(SamePartnerCourseInputs)
    \/ CreateDraftRun(RunInputs)
    \/ SetActiveUrlSlug
    \/ SaveDraftRun(EditorStatuses, {FALSE}, {NoSlug})

SpecNotify == Init /\ [][NextNotify]_vars

\* saves of draft runs, with and without a collaborator that raises
NextCollaborator ==
    \/ CreateDraftCourse(CourseInputs)
    \/ CreateDraftRun(RunInputs)
    \/ UpdateOrCreateSeats
    \/ SaveDraftRun(EditorStatuses, {FALSE}, {NoSlug})
    \/ SaveDraftRunPushRaises

SpecCollaborator == Init /\ [][NextCollaborator]_vars

\* two courses of two partners with two runs and their seats; slugs come from
\* editors and from the redirects of published runs
NextReject ==
    \/ CreateDraftCourse(CourseInputs)
    \/ CreateDraftRun(TwoRunInputs)
    \/ UpdateOrCreateSeats
    \/ SetActiveUrlSlugTo({"a"})
    \/ SaveDraftRun({Reviewed}, {FALSE}, {NoSlug})
    \/ Publish

SpecReject == Init /\ [][NextReject]_vars

\* two courses of two partners with two runs, sent to legal review while the
\* slug generator returns errors, and reviewed while published runs leave
\* redirect slugs
NextRefuse ==
    \/ CreateDraftCourse(CourseInputs)
    \/ CreateDraftRun(TwoRunInputs)
    \/ SetActiveUrlSlugTo({"a"})
    \/ SaveDraftRun({Reviewed}, {FALSE}, {NoSlug})
    \/ SaveDraftRun({LegalReview}, {TRUE}, {NoSlug})
    \/ Publish

SpecRefuse == Init /\ [][NextRefuse]_vars

\* two workers promoting the runs of two courses step by step
NextPromotionRace ==
    \/ CreateDraftCourse(CourseInputs)
    \/ CreateDraftRun(TwoRunInputs)
    \/ PromoteLookUpRun
    \/ PromoteLookUpCourse
    \/ PromoteFinish

SpecPromotionRace == Init /\ [][NextPromotionRace]_vars

\* two workers activating slugs for courses of two partners step by step
NextSlugRace ==
    \/ CreateDraftCourse(CourseInputs)
    \/ CreateDraftRun(SlugRunInputs)
    \/ Promote
    \/ BeginSetActiveUrlSlug(SlugInputs)
    \/ FinishSetActiveUrlSlug

SpecSlugRace == Init /\ [][NextSlugRace]_vars

\* uploads of bulk tasks and the Celery task that processes them
NextBulk ==
    \/ CreateBulkTask
    \/ BulkGet
    \/ BulkSelectLoader
    \/ BulkSaveProcessing
    \/ BulkIngest
    \/ BulkSaveCompleted
    \/ BulkExcept

SpecBulk == Init /\ [][NextBulk]_vars

---------------------------------------------------------------------------
(* Properties *)

DraftRuns == {r \in course_runs : r.draft}

\* the logical course of a row: the primary key of its draft row
Logical(c) == IF c.draft THEN c.pk ELSE c.draft_version

\* the official rows of a store, with the slug records of the official courses
OfficialState(db) ==
    [courses |-> {c \in db.courses : ~c.draft},
     runs |-> {r \in db.runs : ~r.draft},
     slugs |-> {s \in db.slugs : ~Row(db.courses, s.course).draft}]

\* C1: for every course (partner and key) and every course run (key), at most
\* one draft row and at most one official row exist, whatever edits,
\* promotions, publishes and sweeps have run.
C1_OneRowPerEntityAndKind ==
    /\ \A r1, r2 \in course_runs : (r1.key = r2.key /\ r1.draft = r2.draft) => r1 = r2
    /\ \A c1, c2 \in courses :
           (c1.partner = c2.partner /\ c1.key = c2.key /\ c1.draft = c2.draft) => c1 = c2

\* a promotion of a run that was already promoted and published
C1_Witness ==
    /\ lastCall.op = "update_or_create_official_version"
    /\ lastCall.err = NoError
    /\ \E o \in course_runs : ~o.draft /\ o.draft_version = lastCall.pk /\ o.status = Published
    /\ Cardinality(course_runs) = 2
    /\ Cardinality(courses) >= 2

C3_ReviewedPromotes ==
    [][\A d \in DraftRuns :
          (/\ d.status # Reviewed
           /\ lastCall'.op = "save" /\ lastCall'.pk = d.pk /\ lastCall'.arg = Reviewed
           /\ lastCall'.err = NoError)
          => \E o \in course_runs' :
                 /\ ~o.draft /\ o.key = d.key /\ o.draft_version = d.pk
                 /\ \E oc \in courses' :
                        ~oc.draft /\ oc.pk = o.course /\ oc.draft_version = d.course]_vars

\* a save has just moved a draft run into Reviewed, and its official run is there
C3_Witness ==
    /\ lastCall.op = "save" /\ lastCall.arg = Reviewed /\ lastCall.err = NoError
    /\ lastCall.emails.reviewed = 1
    /\ \E d \in DraftRuns :
           /\ d.pk = lastCall.pk /\ d.status = Reviewed
           /\ \E o \in course_runs : ~o.draft /\ o.draft_version = d.pk

\* C4: a save that moves a draft run whose go_live_date is not after now into
\* Reviewed and completes leaves the official run and the draft run Published
\* with announcement now, having sent one go-live notification and no
\* reviewed notification.
C4_DueRunGoesLive ==
    [][\A d \in DraftRuns :
          (/\ d.status # Reviewed
           /\ d.go_live_date # NoDate /\ d.go_live_date <= now
           /\ lastCall'.op = "save" /\ lastCall'.pk = d.pk /\ lastCall'.arg = Reviewed
           /\ lastCall'.err = NoError)
          => /\ \E o \in course_runs' :
                    /\ ~o.draft /\ o.draft_version = d.pk
                    /\ o.status = Published /\ o.announcement = now
             /\ Row(course_runs', d.pk).status = Published
             /\ Row(course_runs', d.pk).announcement = now
             /\ lastCall'.emails.go_live = 1
             /\ lastCall'.emails.reviewed = 0]_vars

\* the runs of a course that are marketable now
MarketableRuns(rs, cpk) == {r \in rs : r.course = cpk /\ is_marketable(r)}

\* this step is a call of unpublish_inactive_runs on course c
SweepOf(c) == lastCall'.op = "unpublish_inactive_runs" /\ lastCall'.pk = c.pk

\* C5: a sweep of a course that has a marketable run (official, marketable
\* type, key not deprecated, Published, a seat, a marketing URL) leaves it
\* with a marketable run.
C5_SweepLeavesAMarketableRun ==
    [][\A c \in courses :
          (SweepOf(c) /\ MarketableRuns(course_runs, c.pk) # {})
          => MarketableRuns(course_runs', c.pk) # {}]_vars

\* the enrollment deadline of the run, the least of its end and enrollment
\* end that are set, is before when
DeadlineBefore(r, when) ==
    \/ r.end # NoDate /\ r.end < when
    \/ r.enrollment_end # NoDate /\ r.enrollment_end < when

\* C6: a sweep that acts changes to Unpublished the Published runs of the
\* course whose enrollment deadline is strictly before now, and leaves every
\* other run of the course as it was.
C6_SweepChangesTheEndedRuns ==
    [][\A c \in courses :
          (SweepOf(c) /\ lastCall'.ret)
          => \A r \in {x \in course_runs : x.course = c.pk} :
                 IF r.status = Published /\ DeadlineBefore(r, now)
                 THEN Row(course_runs', r.pk) = [r EXCEPT !.status = Unpublished]
                 ELSE Row(course_runs', r.pk) = r]_vars

\* a sweep has just unpublished a run whose enrollment end, not its end, had
\* passed, and left the other run Published
C6_Witness ==
    /\ lastCall.op = "unpublish_inactive_runs" /\ lastCall.ret
    /\ \E r1, r2 \in course_runs :
           /\ r1.course = lastCall.pk /\ r2.course = lastCall.pk
           /\ r1.status = Unpublished /\ r1.enrollment_end < now /\ r1.end = now
           /\ r2.status = Published

\* C7: a sweep of a course that has Published runs whose enrollment has ended
\* and no other Published run that is marketable returns False and changes
\* no run.
C7_SweepWithoutMarketableRunIsNoOp ==
    [][\A c \in courses :
          (/\ SweepOf(c)
           /\ \E r \in course_runs :
                  r.course = c.pk /\ r.status = Published /\ DeadlineBefore(r, now)
           /\ ~\E r \in course_runs :
                  /\ r.course = c.pk /\ r.status = Published /\ ~DeadlineBefore(r, now)
                  /\ is_marketable(r))
          => lastCall'.ret = FALSE /\ course_runs' = course_runs]_vars

\* the slug record is active for its course or for the draft of its course
Owns(s) == s.is_active \/ s.is_active_on_draft

OwnedByAnother(slugs, c, slug) ==
    \E s \in slugs :
        s.url_slug = slug /\ Owns(s) /\ Logical(Row(courses, s.course)) # Logical(c)

\* C9: set_active_url_slug on a draft or official course with a slug text
\* owned by another logical course raises the conflict error and leaves every
\* slug record as it was.
C9_ConflictChangesNothing ==
    [][\A c \in courses :
          (/\ lastCall'.op = "set_active_url_slug" /\ lastCall'.pk = c.pk
           /\ OwnedByAnother(url_slugs, c, lastCall'.arg))
          => lastCall'.err = "IntegrityError" /\ url_slugs' = url_slugs]_vars

\* a call on an official course that has slug records of its own has just
\* been refused a slug another logical course owns
C9_Witness ==
    /\ lastCall.op = "set_active_url_slug" /\ lastCall.err = "IntegrityError"
    /\ \E c \in courses :
           /\ c.pk = lastCall.pk /\ ~c.draft
           /\ OwnedByAnother(url_slugs, c, lastCall.arg)
           /\ \E s \in url_slugs : s.course = c.pk /\ s.is_active

\* C10: every official course has at most one slug record with is_active and
\* at most one with is_active_on_draft.
C10_OneActiveSlugPerOfficialCourse ==
    \A c \in {x \in courses : ~x.draft} :
        /\ Cardinality({s \in url_slugs : s.course = c.pk /\ s.is_active}) <= 1
        /\ Cardinality({s \in url_slugs : s.course = c.pk /\ s.is_active_on_draft}) <= 1

\* an official course with three slug records: one active, another active on
\* draft, left by activations on both sides
C10_Witness ==
    \E c \in {x \in courses : ~x.draft} :
        /\ Cardinality({s \in url_slugs : s.course = c.pk}) >= 3
        /\ \E s1, s2 \in url_slugs :
               /\ s1.course = c.pk /\ s2.course = c.pk /\ s1 # s2
               /\ s1.is_active /\ ~s1.is_active_on_draft
               /\ s2.is_active_on_draft /\ ~s2.is_active

\* the slug records of a course
SlugsOf(slugs, cpk) == {s \in slugs : s.course = cpk}

\* C11: a successful set_active_url_slug(s) on an official course leaves one
\* record of the course with text s, created if there was none, with
\* is_active and is_active_on_draft; every other record of the course is
\* still there with both flags cleared.
C11_OfficialActivationFlagsOneRecord ==
    [][\A c \in {x \in courses : ~x.draft} :
          (/\ lastCall'.op = "set_active_url_slug" /\ lastCall'.pk = c.pk
           /\ lastCall'.err = NoError)
          => LET old == SlugsOf(url_slugs, c.pk)
                 new == SlugsOf(url_slugs', c.pk)
                 named == {s \in new : s.url_slug = lastCall'.arg}
             IN  /\ Cardinality(named) = 1
                 /\ \A s \in named : s.is_active /\ s.is_active_on_draft
                 /\ \A s \in new \ named : ~s.is_active /\ ~s.is_active_on_draft
                 /\ \A b \in old : \E s \in new : s.pk = b.pk /\ s.url_slug = b.url_slug
                 /\ Cardinality(new) = Cardinality(old)
                        + (IF \E b \in old : b.url_slug = lastCall'.arg THEN 0 ELSE 1)]_vars

\* an official-side activation has just flagged one record and left two
\* other records of the course, cleared
C11_Witness ==
    /\ lastCall.op = "set_active_url_slug" /\ lastCall.err = NoError
    /\ \E c \in courses :
           /\ c.pk = lastCall.pk /\ ~c.draft
           /\ Cardinality(SlugsOf(url_slugs, c.pk)) >= 3
           /\ \E s \in SlugsOf(url_slugs, c.pk) :
                  s.url_slug = lastCall.arg /\ s.is_active /\ s.is_active_on_draft

\* C12: a successful set_active_url_slug(s) on a draft course whose official
\* counterpart has a record with text s creates no record, leaves that record
\* as the only one of the official course flagged is_active_on_draft, and
\* leaves the draft course without an active record of its own
C12_DraftActivationReusesHistory ==
    [][\A c \in {x \in courses : x.draft} :
          LET off == official_version(courses, c.pk)
          IN  (/\ lastCall'.op = "set_active_url_slug" /\ lastCall'.pk = c.pk
               /\ lastCall'.err = NoError
               /\ off # NoPk
               /\ \E s \in SlugsOf(url_slugs, off) : s.url_slug = lastCall'.arg)
              => /\ \A s \in url_slugs' : \E b \in url_slugs : b.pk = s.pk
                 /\ Cardinality({s \in SlugsOf(url_slugs', off) : s.is_active_on_draft}) = 1
                 /\ \A s \in SlugsOf(url_slugs', off) :
                        s.is_active_on_draft <=> s.url_slug = lastCall'.arg
                 /\ \A b \in SlugsOf(url_slugs, off) : \E s \in SlugsOf(url_slugs', off) :
                        s.pk = b.pk /\ s.url_slug = b.url_slug /\ s.is_active = b.is_active
                 /\ ~\E s \in SlugsOf(url_slugs', c.pk) : s.is_active]_vars

\* a draft course that had its own active slug b has just been given the slug a
\* of its official counterpart's history, which was not the flagged one
C12_Witness ==
    /\ lastCall.op = "set_active_url_slug" /\ lastCall.err = NoError
    /\ \E c \in courses :
          /\ c.pk = lastCall.pk /\ c.draft
          /\ SlugsOf(url_slugs, c.pk) = {}
          /\ \E s, t \in SlugsOf(url_slugs, official_version(courses, c.pk)) :
                /\ s.url_slug = lastCall.arg /\ s.is_active_on_draft /\ ~s.is_active
                /\ t.is_active /\ ~t.is_active_on_draft

\* v is what the slug rows of the store give for course c: the text of an
\* is_active row of c; for a draft without one, the text of a row of its
\* official counterpart flagged is_active_on_draft; nothing otherwise
Resolves(c, v) ==
    LET own == {s \in url_slugs : s.course = c.pk /\ s.is_active}
        counterparts == {o \in courses : ~o.draft /\ o.draft_version = c.pk}
        carried == {s \in url_slugs :
                       s.is_active_on_draft /\ \E o \in counterparts : s.course = o.pk}
    IN  IF own # {} THEN \E s \in own : v = s.url_slug
        ELSE IF c.draft /\ carried # {} THEN \E s \in carried : v = s.url_slug
        ELSE v = NoSlug

\* C13: active_url_slug, when nothing is cached for the course, is the text
\* of the course's own is_active record; for a draft course without one it is
\* the text of the record of its official counterpart flagged
\* is_active_on_draft; and it is empty when there is neither
C13_ActiveSlugResolution ==
    [][\A c \in courses :
          (/\ lastCall'.op = "active_url_slug" /\ lastCall'.pk = c.pk
           /\ ~\E e \in cache : e.key = get_cache_key(c.uuid, c.draft))
          => Resolves(c, lastCall'.arg)]_vars

\* a draft course without a slug record of its own has been read: the value is
\* the slug flagged is_active_on_draft on its official counterpart, which is
\* not the counterpart's active slug
C13_Witness ==
    /\ lastCall.op = "active_url_slug"
    /\ \E c \in courses :
          /\ c.pk = lastCall.pk /\ c.draft
          /\ SlugsOf(url_slugs, c.pk) = {}
          /\ \E s, t \in SlugsOf(url_slugs, official_version(courses, c.pk)) :
                /\ s.is_active_on_draft /\ ~s.is_active /\ s.url_slug = lastCall.arg
                /\ t.is_active /\ t.url_slug # lastCall.arg

\* C14: every read of active_url_slug, of a draft or an official course,
\* returns what the slug records of the store give at the time of the read;
\* a value that was cached before a set_active_url_slug of the request changed
\* the records is never returned
C14_NoStaleSlug ==
    [][\A c \in courses :
          (lastCall'.op = "active_url_slug" /\ lastCall'.pk = c.pk)
          => /\ url_slugs' = url_slugs
             /\ Resolves(c, lastCall'.arg)
             /\ \A e \in cache' : e.key = get_cache_key(c.uuid, c.draft) => e.value = lastCall'.arg]_vars

\* a course is read after a call of the same request dropped another value
\* that was cached for it
C14_Witness ==
    /\ lastCall.op = "active_url_slug"
    /\ \E c \in courses :
          /\ c.pk = lastCall.pk
          /\ \E e \in invalidated :
                e.key = get_cache_key(c.uuid, c.draft) /\ e.value # lastCall.arg
          /\ \E e \in cache :
                e.key = get_cache_key(c.uuid, c.draft) /\ e.value = lastCall.arg

\* C15: when a promotion succeeds for a draft course whose slug resolves to S
\* while its official counterpart has another slug T active, the official
\* course's only active record afterwards has text S and the record of T is
\* still in its history, not active
C15_PromotionKeepsOldSlug ==
    [][\A d \in {r \in course_runs : r.draft}, c \in {x \in courses : x.draft},
         t \in url_slugs, S \in {s.url_slug : s \in url_slugs} :
          (/\ lastCall'.op = "update_or_create_official_version" /\ lastCall'.pk = d.pk
           /\ lastCall'.err = NoError
           /\ d.course = c.pk
           /\ Resolves(c, S)
           /\ t.course = official_version(courses, c.pk) /\ t.is_active /\ t.url_slug # S)
          => /\ \E s \in SlugsOf(url_slugs', t.course) : s.is_active
             /\ \A s \in SlugsOf(url_slugs', t.course) : s.is_active => s.url_slug = S
             /\ Cardinality({s \in SlugsOf(url_slugs', t.course) : s.is_active}) = 1
             /\ \E s \in SlugsOf(url_slugs', t.course) :
                    s.pk = t.pk /\ s.url_slug = t.url_slug /\ ~s.is_active]_vars

\* a promotion has just succeeded and the official course has the slug b
\* active, on the draft too, and the record of a, the run's own slug aside, in
\* its history with both flags cleared
C15_Witness ==
    /\ lastCall.op = "update_or_create_official_version" /\ lastCall.err = NoError
    /\ \E d \in course_runs : \E c \in courses :
          /\ d.pk = lastCall.pk /\ c.pk = d.course
          /\ \E s, t \in SlugsOf(url_slugs, official_version(courses, c.pk)) :
                /\ s.url_slug = "b" /\ s.is_active /\ s.is_active_on_draft
                /\ t.url_slug = "a" /\ ~t.is_active /\ ~t.is_active_on_draft
          /\ SlugsOf(url_slugs, c.pk) = {}

\* C16: the first successful promotion of a course sets the official
\* course's canonical_course_run to the official run being promoted and the
\* draft course's to that run's draft; every later promotion of the course,
\* by the same run or another, leaves the official course's unchanged
C16_CanonicalRunSetOnce ==
    [][\A d \in {r \in course_runs : r.draft} :
          (/\ lastCall'.op = "update_or_create_official_version" /\ lastCall'.pk = d.pk
           /\ lastCall'.err = NoError)
          => LET before == {o \in courses : ~o.draft /\ o.draft_version = d.course}
                 after == {o \in courses' : ~o.draft /\ o.draft_version = d.course}
                 promoted == {r \in course_runs' : ~r.draft /\ r.draft_version = d.pk}
             IN  /\ Cardinality(after) = 1 /\ Cardinality(promoted) = 1
                 /\ before = {} =>
                        /\ \A o \in after : \A r \in promoted : o.canonical_course_run = r.pk
                        /\ \A c \in courses' : c.pk = d.course => c.canonical_course_run = d.pk
                 /\ \A b \in before : \A o \in after :
                        o.pk = b.pk /\ o.canonical_course_run = b.canonical_course_run]_vars

\* a run has just been promoted into a course whose canonical run is the
\* official row of another run
C16_Witness ==
    /\ lastCall.op = "update_or_create_official_version" /\ lastCall.err = NoError
    /\ \E r \in course_runs, o \in courses :
          /\ ~r.draft /\ r.draft_version = lastCall.pk
          /\ ~o.draft /\ r.course = o.pk
          /\ o.canonical_course_run # NoPk /\ o.canonical_course_run # r.pk
          /\ \E first \in course_runs : first.pk = o.canonical_course_run /\ first.course = o.pk

\* C17: when publish() returns True on an official run that has a draft run,
\* the official run and the draft run are both stored with status Published
\* and with the time of the call as their announcement
C17_PublishPersistsBoth ==
    [][\A o \in {r \in course_runs : ~r.draft /\ r.draft_version # NoPk} :
          (/\ lastCall'.op = "publish" /\ lastCall'.pk = o.pk
           /\ lastCall'.err = NoError /\ lastCall'.ret)
          => \A r \in course_runs' :
                 r.pk \in {o.pk, o.draft_version}
                 => r.status = Published /\ r.announcement = now]_vars

\* the slug records with the text of run o's slug that belong to a copy,
\* draft or official, of o's course
RedirectsOf(slugs, o) ==
    {s \in slugs : s.url_slug = o.slug
                    /\ \E c, oc \in courses : c.pk = s.course /\ oc.pk = o.course /\ c.uuid = oc.uuid}

\* C18 as stated: when publish() returns True on an official run, the run's
\* official course has a slug record with the text of the run's slug
C18_RedirectOnRunsCourse ==
    [][\A o \in {r \in course_runs : ~r.draft} :
          (/\ lastCall'.op = "publish" /\ lastCall'.pk = o.pk
           /\ lastCall'.err = NoError /\ lastCall'.ret)
          => \E s \in url_slugs' : s.url_slug = o.slug /\ s.course = o.course]_vars

\* C18, amended: when publish() returns True on an official run, exactly one
\* slug record with the text of the run's slug belongs to the run's course or
\* to its draft copy; if there was one before the call no record is created,
\* otherwise the call creates one record, for the official course
C18_RedirectOnLogicalCourse ==
    [][\A o \in {r \in course_runs : ~r.draft} :
          (/\ lastCall'.op = "publish" /\ lastCall'.pk = o.pk
           /\ lastCall'.err = NoError /\ lastCall'.ret)
          => /\ Cardinality(RedirectsOf(url_slugs', o)) = 1
             /\ Cardinality({s \in url_slugs' : s.url_slug = o.slug
                                /\ s.partner = Row(courses, o.course).partner}) = 1
             /\ RedirectsOf(url_slugs, o) # {} => url_slugs' = url_slugs
             /\ RedirectsOf(url_slugs, o) = {} =>
                    \E s \in url_slugs' :
                        /\ url_slugs' = url_slugs \cup {s} /\ s \notin url_slugs
                        /\ s.url_slug = o.slug /\ s.course = o.course]_vars

\* publish() has returned True on a run whose slug is a record of the draft
\* copy of its course and of no other course
C18_Witness ==
    /\ lastCall.op = "publish" /\ lastCall.err = NoError /\ lastCall.ret
    /\ \E o \in course_runs :
          /\ o.pk = lastCall.pk /\ ~o.draft
          /\ \E s \in RedirectsOf(url_slugs, o) : s.course = Row(courses, o.course).draft_version
          /\ ~\E s \in url_slugs : s.url_slug = o.slug /\ s.course = o.course

\* C19: a save of an official run with a status other than the one it has
\* stores the status and nothing else: no row is promoted, no slug record
\* changes, the run is not published in its place and no notification is sent
C19_OfficialRowsDoNotTransition ==
    [][\A o \in {r \in course_runs : ~r.draft} :
          (/\ lastCall'.op = "save" /\ lastCall'.pk = o.pk /\ lastCall'.arg # o.status)
          => /\ lastCall'.err = NoError
             /\ course_runs' = UpdateRow(course_runs, [o EXCEPT !.status = lastCall'.arg])
             /\ courses' = courses
             /\ url_slugs' = url_slugs
             /\ lastCall'.emails = NoEmails]_vars

\* an official run due to go live has been saved as Reviewed and is stored so,
\* its draft run being in another status
C19_Witness ==
    /\ lastCall.op = "save" /\ lastCall.arg = Reviewed /\ lastCall.err = NoError
    /\ \E o, d \in course_runs :
          /\ o.pk = lastCall.pk /\ ~o.draft /\ d.pk = o.draft_version
          /\ o.status = Reviewed /\ o.go_live_date # NoDate /\ o.go_live_date <= now
          /\ d.status = Unpublished

\* C20: the notifications of a save of a course run are sent only once the
\* transaction that stores the status change and the promoted rows has
\* committed: a save that sends one has not failed and been rolled back
C20_NotificationsAfterCommit ==
    [][(lastCall'.op = "save" /\ lastCall'.emails # NoEmails)
       => lastCall'.err = NoError]_vars

\* C21: a save of a draft run during which a collaborator call raises leaves
\* the run stored with its new status and, for Reviewed, with its official
\* run in place
C21_CollaboratorFailureKeepsTransition ==
    [][\A d \in DraftRuns :
          (/\ lastCall'.op = "save" /\ lastCall'.pk = d.pk
           /\ lastCall'.err = "CollaboratorError")
          => /\ Row(course_runs', d.pk).status = lastCall'.arg
             /\ lastCall'.arg = Reviewed =>
                    \E o \in course_runs' : ~o.draft /\ o.draft_version = d.pk]_vars

\* C22: a save that moves a draft run into Reviewed either fails and leaves
\* every row as it was, or succeeds and leaves the official run with the
\* seats and restriction of the draft run, on the official course, which has
\* the draft course's entitlement and one active slug
C22_PromotionIsAtomic ==
    [][\A d \in DraftRuns :
          (/\ lastCall'.op = "save" /\ lastCall'.pk = d.pk /\ lastCall'.arg = Reviewed
           /\ d.status # Reviewed)
          => IF lastCall'.err # NoError
             THEN courses' = courses /\ course_runs' = course_runs /\ url_slugs' = url_slugs
             ELSE \E o \in course_runs', oc \in courses' :
                     /\ ~o.draft /\ o.draft_version = d.pk
                     /\ d.seats \subseteq o.seats
                     /\ d.restriction_type # "" => o.restriction_type = d.restriction_type
                     /\ ~oc.draft /\ oc.draft_version = d.course /\ o.course = oc.pk
                     /\ Row(courses, d.course).entitlement \in ENTITLEMENT_MODES
                            => oc.entitlement = Row(courses, d.course).entitlement
                     /\ Cardinality({s \in url_slugs' : s.course = oc.pk /\ s.is_active}) = 1]_vars

\* a save into Reviewed has just been refused for a run with seats whose
\* course has no official row
C22_Witness ==
    /\ lastCall.op = "save" /\ lastCall.arg = Reviewed /\ lastCall.err = "IntegrityError"
    /\ \E d \in course_runs :
          /\ d.pk = lastCall.pk /\ d.draft /\ d.status # Reviewed /\ d.seats # {}
          /\ ~\E o \in course_runs : o.draft_version = d.pk
          /\ ~\E oc \in courses : oc.draft_version = d.course

\* C23: when a save moves a draft run that is due to go live into Reviewed,
\* the promotion succeeds and the publish that follows raises, the draft run
\* is stored as Reviewed and has its official run
C23_FailedPublishKeepsReviewed ==
    [][\A d \in DraftRuns :
          (/\ lastCall'.op = "save" /\ lastCall'.pk = d.pk /\ lastCall'.arg = Reviewed
           /\ d.status # Reviewed
           /\ d.go_live_date # NoDate /\ d.go_live_date <= now
           /\ update_or_create_official_version(
                  [Store EXCEPT !.runs = UpdateRow(course_runs, [d EXCEPT !.status = Reviewed])],
                  d.pk).err = NoError
           /\ lastCall'.err # NoError)
          => /\ Row(course_runs', d.pk).status = Reviewed
             /\ \E o \in course_runs' : ~o.draft /\ o.draft_version = d.pk]_vars

\* C24: a save of a draft run into Reviewed or LegalReview that is refused
\* leaves the stored status of the draft run as it was before the save
C24_RejectedTransitionKeepsStatus ==
    [][\A d \in DraftRuns :
          (/\ lastCall'.op = "save" /\ lastCall'.pk = d.pk
           /\ lastCall'.arg \in {LegalReview, Reviewed}
           /\ lastCall'.err # NoError)
          => Row(course_runs', d.pk).status = d.status]_vars

\* a save into Reviewed of an Unpublished draft run has just been refused
\* for a slug conflict
C24_Witness ==
    /\ lastCall.op = "save" /\ lastCall.arg = Reviewed /\ lastCall.err = "IntegrityError"
    /\ \E d \in course_runs :
          d.pk = lastCall.pk /\ d.draft /\ d.status = Unpublished

\* C25: whatever the interleaving of the steps of two workers promoting the
\* same draft run, or runs of the same draft course, no draft run and no draft
\* course has two official rows, and no two official rows share a run key or
\* a course partner and key
C25_NoDuplicateOfficialRows ==
    /\ \A r1, r2 \in {r \in course_runs : ~r.draft} :
           (r1.draft_version = r2.draft_version \/ r1.key = r2.key) => r1 = r2
    /\ \A c1, c2 \in {c \in courses : ~c.draft} :
           (c1.draft_version = c2.draft_version
            \/ (c1.partner = c2.partner /\ c1.key = c2.key)) => c1 = c2

\* a worker that had found no official run has just ended its promotion of a
\* draft run that another worker promoted in between
C25_Witness ==
    /\ lastCall.op = "update_or_create_official_version" /\ lastCall.err = "IntegrityError"
    /\ \E o \in course_runs : ~o.draft /\ o.draft_version = lastCall.pk
    /\ \A w \in Workers : workers[w] = Idle

\* C26: whatever the interleaving of the steps of two workers activating the
\* same slug text for two logical courses, a call that succeeds leaves the
\* slug text owned by no other logical course than its own
C26_OneWinnerPerSlug ==
    [][\A w \in Workers :
          (/\ workers[w].pc = "slug_checked" /\ workers'[w] = Idle
           /\ lastCall'.err = NoError)
          => ~\E s \in url_slugs' :
                 /\ Lower(s.url_slug) = Lower(workers[w].slug) /\ Owns(s)
                 /\ Logical(Row(courses, s.course)) # Logical(Row(courses, workers[w].pk))]_vars

\* C27: a save of a draft run with the status it was loaded with changes no
\* row of the courses, the runs and the slugs, and sends no email
C27_NoSideEffectsWithoutStatusChange ==
    [][\A d \in DraftRuns :
          (/\ lastCall'.op = "save" /\ lastCall'.pk = d.pk /\ lastCall'.arg = d.status)
          => /\ lastCall'.err = NoError /\ lastCall'.emails = NoEmails
             /\ courses' = courses /\ course_runs' = course_runs
             /\ url_slugs' = url_slugs]_vars

\* a Reviewed draft run whose seats were edited after its promotion has just
\* been saved as Reviewed again
C27_Witness ==
    /\ lastCall.op = "save" /\ lastCall.arg = Reviewed /\ lastCall.err = NoError
    /\ lastCall.emails = NoEmails
    /\ \E d, o \in course_runs :
          /\ d.pk = lastCall.pk /\ d.draft /\ d.status = Reviewed
          /\ ~o.draft /\ o.draft_version = d.pk /\ o.seats # d.seats

\* C28: when publish() returns True on an official run, the run is stored as
\* Published once the call has returned, and so is its draft run if it has
\* one: the sweep inside publish() leaves the run just published alone
C28_PublishedAtReturn ==
    [][\A o \in {r \in course_runs : ~r.draft} :
          (/\ lastCall'.op = "publish" /\ lastCall'.pk = o.pk
           /\ lastCall'.err = NoError /\ lastCall'.ret)
          => /\ Row(course_runs', o.pk).status = Published
             /\ o.draft_version # NoPk
                    => Row(course_runs', o.draft_version).status = Published]_vars

\* C29: a sweep of a course stores as Unpublished the draft run of every
\* official run it changes to Unpublished, sends no email, and changes
\* nothing but statuses: no course, no slug record and no other field of a
\* run
C29_SweepKeepsCopiesInStep ==
    [][\A c \in courses :
          (lastCall'.op = "unpublish_inactive_runs" /\ lastCall'.pk = c.pk)
          => /\ \A o \in course_runs :
                    (/\ ~o.draft /\ o.draft_version # NoPk /\ o.status # Unpublished
                     /\ Row(course_runs', o.pk).status = Unpublished)
                    => Row(course_runs', o.draft_version).status = Unpublished
             /\ lastCall'.emails = NoEmails
             /\ courses' = courses /\ url_slugs' = url_slugs
             /\ {r.pk : r \in course_runs'} = {r.pk : r \in course_runs}
             /\ \A r \in course_runs :
                    [Row(course_runs', r.pk) EXCEPT !.status = r.status] = r]_vars

\* a sweep has just returned True and an official run of the course that was
\* announced is Unpublished together with its draft run
C29_Witness ==
    /\ lastCall.op = "unpublish_inactive_runs" /\ lastCall.ret
    /\ \E o, d \in course_runs :
          /\ ~o.draft /\ o.course = lastCall.pk /\ o.announcement # NoDate
          /\ o.status = Unpublished
          /\ d.pk = o.draft_version /\ d.status = Unpublished

\* the status changes process_bulk_operation is said to make
BulkStatusPath ==
    {<<Pending, Processing>>, <<Processing, Completed>>, <<Pending, Failed>>,
     <<Processing, Failed>>}

\* C30: every change of the stored status of a bulk task is one of Pending ->
\* Processing -> Completed and Pending or Processing -> Failed; a task becomes
\* Completed in the step after ingest returned, with the summary ingest
\* returned stored; and a call in which an exception occurred ends with its
\* task stored as Failed and raises that exception
C30_BulkTaskStatusPath ==
    [][/\ \A t \in bulk_tasks, u \in bulk_tasks' :
             (u.id = t.id /\ u.status # t.status) => <<t.status, u.status>> \in BulkStatusPath
       /\ \A t \in bulk_tasks, u \in bulk_tasks' :
             (u.id = t.id /\ u.status = Completed /\ t.status # Completed)
             => /\ bulk_call.pc = "save_completed" /\ bulk_call.id = u.id
                /\ bulk_call.summary \in Summaries /\ u.task_summary = bulk_call.summary
       /\ (bulk_call.pc = "except" /\ bulk_call'.pc = "idle")
             => /\ \E u \in bulk_tasks' : u.id = bulk_call.id /\ u.status = Failed
                /\ bulk_call'.result.raised = bulk_call.exc]_vars

====
